---- MODULE Spec2Model ----
(***************************************************************************)
(* kick.py: the Pusher websocket layer (kick/ws.py).                       *)
(*                                                                         *)
(* PusherWebSocket.start is the read loop: while the transport is not      *)
(* closed it awaits poll_event, which receives one frame, decodes the      *)
(* envelope (outer JSON, then the JSON string in its "data" field),        *)
(* dispatches the two generic notifications and then the notification the  *)
(* event tag selects.  The four subscription operations send one control   *)
(* frame each through the same transport.                                  *)
(*                                                                         *)
(* JSON objects / Python dicts are TLA+ records: a key is present iff it   *)
(* is in the record's DOMAIN.  A piece of JSON text is a record            *)
(* [wellformed, value]: parsing yields value when wellformed and raises    *)
(* otherwise.                                                              *)
(*                                                                         *)
(* The entity classes of kick/message.py are views over a payload: an      *)
(* instance is its class and its _data, an attribute read runs the         *)
(* property's function, and a cached property stores what the first read   *)
(* returned.  == between entities follows Python's rich comparison.        *)
(***************************************************************************)
EXTENDS Integers, Sequences, FiniteSets, TLC

(* ------------------------------ bounds --------------------------------- *)

\* frames the transport delivers in one run
MaxFrames == 2

\* control frames the subscription operations send in one run
MaxSends == 3

(* --------------------------- wire vocabulary --------------------------- *)

\* the eight tags of the match statement, in wire form
KnownTags ==
    { "App\\Events\\ChatMessageEvent",
      "App\\Events\\MessageDeletedEvent",
      "App\\Events\\PinnedMessageCreatedEvent",
      "App\\Events\\PinnedMessageDeletedEvent",
      "App\\Events\\UserBannedEvent",
      "App\\Events\\UserUnbannedEvent",
      "App\\Events\\StreamerIsLive",
      "App\\Events\\FollowersUpdated" }

\* tags the match statement has no case for: a Pusher protocol event and a
\* known name without its namespace
OtherTags == { "pusher:connection_established", "ChatMessageEvent" }

Tags == KnownTags \cup OtherTags

\* channel ids of the users in client._watched_users, and one that is not
WatchedIds == {5, 6}

UnwatchedIds == {7}

\* JSON literals the "followed" field may hold
FollowedValues == { "true", "false", "null", "1", "\"true\"" }

\* inner payloads of the entity events (opaque but for their id)
EntityPayloads == { [id |-> "1"], [id |-> "2"] }

\* inner payloads of FollowersUpdated; one lacks the "followed" key
FollowPayloads ==
    [channel_id : WatchedIds \cup UnwatchedIds, followed : FollowedValues]
        \cup { [channel_id |-> 5] }

JsonText(v) == [wellformed |-> TRUE, value |-> v]

Garbage == [wellformed |-> FALSE, value |-> [id |-> "1"]]

\* well-formed envelopes
GoodFrames ==
    { JsonText([event |-> t, data |-> JsonText(p)]) :
          t \in Tags \ {"App\\Events\\FollowersUpdated"}, p \in EntityPayloads }
    \cup
    { JsonText([event |-> "App\\Events\\FollowersUpdated", data |-> JsonText(p)]) :
          p \in FollowPayloads \cup {[id |-> "1"]} }

\* frames that do not decode: outer text not JSON, no "data" key, inner
\* text not JSON, no "event" key
BadFrames ==
    { Garbage,
      JsonText([event |-> "App\\Events\\ChatMessageEvent"]),
      JsonText([event |-> "App\\Events\\ChatMessageEvent", data |-> Garbage]),
      JsonText([data |-> JsonText([id |-> "1"])]) }

Frames == GoodFrames \cup BadFrames

NoFrame == [wellformed |-> FALSE, value |-> [none |-> TRUE]]

\* ids passed to the subscription operations
Ids == {5, 12}

(* ------------------------------ state ---------------------------------- *)

VARIABLES
    closed,      \* ws.closed
    pc,          \* position of start(): "test", "receive", "poll", "done", "raised"
    raw_msg,     \* the frame poll_event holds after receive()
    received,    \* frames receive() has returned, in wire order
    dispatched,  \* calls of client.dispatch, in call order
    followers,   \* _watched_users[c]._data["followers_count"]
    error,       \* the exception that left start(), or "none"
    sent,        \* frames passed to ws.send_json, in call order
    calls,       \* subscription operations called, in call order
    obj,         \* an entity instance: its class and its _data
    cache,       \* what cached_property has stored on the instance, by field
    seen,        \* what the first successful access of each field returned
    runs,        \* how many times each field's derivation has run
    result,      \* the field last accessed and what the access returned
    chatrooms,   \* ids of the chatrooms the client knows
    accesses,    \* attribute accesses made on the instance
    mutated,     \* the instance's _data was changed after construction
    cmp          \* the last == evaluated: operands and outcome

vars == <<closed, pc, raw_msg, received, dispatched, followers, error, sent, calls,
          obj, cache, seen, runs, result, chatrooms, accesses, mutated, cmp>>

entVars == <<obj, cache, seen, runs, result, chatrooms, accesses, mutated>>

readerVars == <<closed, pc, raw_msg, received, dispatched, followers, error>>

senderVars == <<sent, calls>>

(* --------------------------- poll_event -------------------------------- *)

\* raw_msg.json(), raw_data["data"], json.loads(...), raw_data["event"]:
\* the first of them that raises, or "none"
DecodeError(m) ==
    IF ~m.wellformed THEN "JSONDecodeError"
    ELSE IF "data" \notin DOMAIN m.value THEN "KeyError"
    ELSE IF ~m.value.data.wellformed THEN "JSONDecodeError"
    ELSE IF "event" \notin DOMAIN m.value THEN "KeyError"
    ELSE "none"

\* one call of client.dispatch(name, *args) made while frame n is processed
Notification(name, n, args) == [name |-> name, frame |-> n, args |-> args]

\* GenericNotifications without the raw notification
GenericTypedOnly(m, n) ==
    << Notification("payload_receive", n, <<m.value.event, m.value.data.value>>) >>

\* the two unconditional dispatches
GenericNotifications(m, n) ==
    << Notification("payload_receive", n, <<m.value.event, m.value.data.value>>),
       Notification("raw_payload_receive", n, <<m.value>>) >>

\* NotificationName with the names of the first two cases exchanged
NotificationNameSwapped(event) ==
    CASE event = "App\\Events\\ChatMessageEvent" -> "message_delete"
      [] event = "App\\Events\\MessageDeletedEvent" -> "message"
      [] event = "App\\Events\\PinnedMessageCreatedEvent" -> "pin_message"
      [] event = "App\\Events\\PinnedMessageDeletedEvent" -> "pinned_message_delete"
      [] event = "App\\Events\\UserBannedEvent" -> "user_banned"
      [] event = "App\\Events\\UserUnbannedEvent" -> "user_unbanned"
      [] event = "App\\Events\\StreamerIsLive" -> "livestream_start"

\* the notification name of each case that constructs an entity (or nothing)
NotificationName(event) ==
    CASE event = "App\\Events\\ChatMessageEvent" -> "message"
      [] event = "App\\Events\\MessageDeletedEvent" -> "message_delete"
      [] event = "App\\Events\\PinnedMessageCreatedEvent" -> "pin_message"
      [] event = "App\\Events\\PinnedMessageDeletedEvent" -> "pinned_message_delete"
      [] event = "App\\Events\\UserBannedEvent" -> "user_banned"
      [] event = "App\\Events\\UserUnbannedEvent" -> "user_unbanned"
      [] event = "App\\Events\\StreamerIsLive" -> "livestream_start"

\* the class each case constructs over the inner payload
ConstructedType(event) ==
    CASE event = "App\\Events\\ChatMessageEvent" -> "Message"
      [] event = "App\\Events\\MessageDeletedEvent" -> "MessageDeletedEventData"
      [] event = "App\\Events\\PinnedMessageCreatedEvent" -> "PinnedMessage"
      [] event = "App\\Events\\UserBannedEvent" -> "UserBannedEventData"
      [] event = "App\\Events\\UserUnbannedEvent" -> "UserUnbannedEventData"
      [] event = "App\\Events\\StreamerIsLive" -> "PartialLivestream"

\* the dispatch of a case other than FollowersUpdated
EntityCase(event, data, n) ==
    IF event = "App\\Events\\PinnedMessageDeletedEvent"
    THEN << Notification(NotificationName(event), n, <<>>) >>
    ELSE << Notification(NotificationName(event), n,
                         << [cls |-> ConstructedType(event), data |-> data] >>) >>

\* IsTrue as a truth test, if data["followed"]:
IsTruthy(followed) == followed \in {"true", "1", "\"true\""}

\* data["followed"] is True
IsTrue(followed) == followed = "true"

FollowEvent(followed) == IF IsTrue(followed) THEN "follow" ELSE "unfollow"

FollowDelta(followed) == IF IsTrue(followed) THEN 1 ELSE -1

\* what a handler of follow/unfollow is handed: the watched user itself,
\* whose count reads as it stands when dispatch is called
WatchedUser(c, fc) == [cls |-> "User", key |-> c, followers_count |-> fc[c]]

\* a subscript that raises: nothing dispatched, nothing changed
Raise(kind, fc) == [error |-> kind, out |-> <<>>, followers |-> fc]

\* LookupFailure as a lookup that gives up quietly
LookupSilent(fc) == [error |-> "none", out |-> <<>>, followers |-> fc]

\* _watched_users[data["channel_id"]] on an id that is not a key
LookupFailure(fc) == Raise("KeyError", fc)

\* FollowersCase calling dispatch before it changes the count
FollowersCaseDispatchFirst(data, n, fc) ==
    IF "channel_id" \notin DOMAIN data THEN Raise("KeyError", fc)
    ELSE IF data.channel_id \notin DOMAIN fc THEN LookupFailure(fc)
    ELSE IF "followed" \notin DOMAIN data THEN Raise("KeyError", fc)
    ELSE LET c == data.channel_id
             fc2 == [fc EXCEPT ![c] = @ + FollowDelta(data.followed)]
         IN  [error |-> "none",
              out |-> << Notification(FollowEvent(data.followed), n,
                                      << WatchedUser(c, fc) >>) >>,
              followers |-> fc2]

\* FollowersCase keeping the count at zero or above
FollowersCaseClamped(data, n, fc) ==
    IF "channel_id" \notin DOMAIN data THEN Raise("KeyError", fc)
    ELSE IF data.channel_id \notin DOMAIN fc THEN LookupFailure(fc)
    ELSE IF "followed" \notin DOMAIN data THEN Raise("KeyError", fc)
    ELSE LET c == data.channel_id
             to == fc[c] + FollowDelta(data.followed)
             fc2 == [fc EXCEPT ![c] = IF to < 0 THEN 0 ELSE to]
         IN  [error |-> "none",
              out |-> << Notification(FollowEvent(data.followed), n,
                                      << WatchedUser(c, fc2) >>) >>,
              followers |-> fc2]

\* FollowersCase changing the count of every watched user
FollowersCaseAll(data, n, fc) ==
    IF "channel_id" \notin DOMAIN data THEN Raise("KeyError", fc)
    ELSE IF data.channel_id \notin DOMAIN fc THEN LookupFailure(fc)
    ELSE IF "followed" \notin DOMAIN data THEN Raise("KeyError", fc)
    ELSE LET c == data.channel_id
             fc2 == [x \in DOMAIN fc |-> fc[x] + FollowDelta(data.followed)]
         IN  [error |-> "none",
              out |-> << Notification(FollowEvent(data.followed), n,
                                      << WatchedUser(c, fc2) >>) >>,
              followers |-> fc2]

\* case "App\\Events\\FollowersUpdated"
FollowersCase(data, n, fc) ==
    IF "channel_id" \notin DOMAIN data THEN Raise("KeyError", fc)
    ELSE IF data.channel_id \notin DOMAIN fc THEN LookupFailure(fc)
    ELSE IF "followed" \notin DOMAIN data THEN Raise("KeyError", fc)
    ELSE LET c == data.channel_id
             fc2 == [fc EXCEPT ![c] = @ + FollowDelta(data.followed)]
         IN  [error |-> "none",
              out |-> << Notification(FollowEvent(data.followed), n,
                                      << WatchedUser(c, fc2) >>) >>,
              followers |-> fc2]

\* Match with a default case that raises
MatchDefaultRaises(event, data, n, fc) ==
    IF event = "App\\Events\\FollowersUpdated" THEN FollowersCase(data, n, fc)
    ELSE IF event \in KnownTags
         THEN [error |-> "none", out |-> EntityCase(event, data, n), followers |-> fc]
         ELSE Raise("ValueError", fc)

\* the match statement
Match(event, data, n, fc) ==
    IF event = "App\\Events\\FollowersUpdated" THEN FollowersCase(data, n, fc)
    ELSE IF event \in KnownTags
         THEN [error |-> "none", out |-> EntityCase(event, data, n), followers |-> fc]
         ELSE [error |-> "none", out |-> <<>>, followers |-> fc]

\* PollOutcome dispatching the raw notification before it parses the inner text
PollOutcomeRawFirst(m, n, fc) ==
    IF ~m.wellformed THEN Raise("JSONDecodeError", fc)
    ELSE IF DecodeError(m) # "none"
         THEN [error |-> DecodeError(m),
               out |-> << Notification("raw_payload_receive", n, <<m.value>>) >>,
               followers |-> fc]
         ELSE LET r == Match(m.value.event, m.value.data.value, n, fc)
              IN  [error |-> r.error,
                   out |-> GenericNotifications(m, n) \o r.out,
                   followers |-> r.followers]

\* poll_event after receive() has returned m as the n-th frame
PollOutcome(m, n, fc) ==
    IF DecodeError(m) # "none" THEN Raise(DecodeError(m), fc)
    ELSE LET r == Match(m.value.event, m.value.data.value, n, fc)
         IN  [error |-> r.error,
              out |-> GenericNotifications(m, n) \o r.out,
              followers |-> r.followers]

(* ------------------------------ read loop ------------------------------ *)

\* AfterTest as a loop that never looks at closed
AfterTestIgnoresClosed(isClosed) == "receive"

\* while not self.ws.closed
AfterTest(isClosed) == IF isClosed THEN "done" ELSE "receive"

\* ReceiveReady as a loop that does not await poll_event before the next one
ReceiveEager == pc \in {"receive", "poll"}

\* start() calls poll_event, hence receive(), only from the loop body
ReceiveReady == pc = "receive"

\* Python's None
None == [cls |-> "NoneType"]

\* no entity has been constructed, no attribute read, nothing compared
NoObject == [cls |-> "NoneType", data |-> [none |-> TRUE]]

NoResult == [field |-> "none", value |-> None]

NoCmp == [left |-> NoObject, right |-> NoObject, result |-> FALSE]

Init ==
    /\ closed = FALSE
    /\ pc = "test"
    /\ raw_msg = NoFrame
    /\ received = <<>>
    /\ dispatched = <<>>
    /\ followers = (5 :> 3 @@ 6 :> 0)
    /\ error = "none"
    /\ sent = <<>>
    /\ calls = <<>>
    /\ obj = NoObject
    /\ cache = <<>>
    /\ seen = <<>>
    /\ runs = <<>>
    /\ result = NoResult
    /\ chatrooms = {}
    /\ accesses = 0
    /\ mutated = FALSE
    /\ cmp = NoCmp

\* start(): the loop condition
LoopTest ==
    /\ pc = "test"
    /\ pc' = AfterTest(closed)
    /\ UNCHANGED <<closed, raw_msg, received, dispatched, followers, error>>
    /\ UNCHANGED senderVars
    /\ UNCHANGED <<entVars, cmp>>

\* poll_event: await self.ws.receive()
Receive ==
    /\ ReceiveReady
    /\ Len(received) < MaxFrames
    /\ \E m \in Frames :
          /\ raw_msg' = m
          /\ received' = Append(received, m)
    /\ pc' = "poll"
    /\ UNCHANGED <<closed, dispatched, followers, error>>
    /\ UNCHANGED senderVars
    /\ UNCHANGED <<entVars, cmp>>

\* poll_event: everything after the await, and the return (or raise) into start()
PollEvent ==
    /\ pc = "poll"
    /\ LET r == PollOutcome(raw_msg, Len(received), followers)
       IN  /\ dispatched' = dispatched \o r.out
           /\ followers' = r.followers
           /\ error' = r.error
           /\ pc' = IF r.error = "none" THEN "test" ELSE "raised"
    /\ UNCHANGED <<closed, raw_msg, received>>
    /\ UNCHANGED senderVars
    /\ UNCHANGED <<entVars, cmp>>

\* the transport closes
Close ==
    /\ ~closed
    /\ closed' = TRUE
    /\ UNCHANGED <<pc, raw_msg, received, dispatched, followers, error>>
    /\ UNCHANGED senderVars
    /\ UNCHANGED <<entVars, cmp>>

Next == LoopTest \/ Receive \/ PollEvent \/ Close

Spec == Init /\ [][Next]_vars

\* the event loop resumes a coroutine that can run; what the transport
\* delivers, and when, is not up to the program
FairSpec == Spec /\ WF_vars(LoopTest) /\ WF_vars(PollEvent)

(* ------------------------ subscription operations ---------------------- *)

\* ChatroomTopic without the version suffix
ChatroomTopicUnversioned(id) == "chatrooms." \o ToString(id)

\* f"chatrooms.{chatroom_id}.v2"
ChatroomTopic(id) == "chatrooms." \o ToString(id) \o ".v2"

\* f"channel.{channel_id}"
ChannelTopic(id) == "channel." \o ToString(id)

\* the dict handed to send_json
ControlFrame(event, topic) ==
    [event |-> event, data |-> [auth |-> "", channel |-> topic]]

\* the "event" of the frame each operation builds
SubscribeEvent == "pusher:subscribe"

UnsubscribeEvent == "pusher:unsubscribe"

WatchEvent == "pusher:subscribe"

UnwatchEvent == "pusher:subscribe"

\* each operation is one awaited send_json call; it returns once the frame
\* is sent
subscribe_to_chatroom ==
    /\ Len(sent) < MaxSends
    /\ \E id \in Ids :
          /\ sent' = Append(sent, ControlFrame(SubscribeEvent, ChatroomTopic(id)))
          /\ calls' = Append(calls, [op |-> "subscribe_to_chatroom", id |-> id])
    /\ UNCHANGED readerVars
    /\ UNCHANGED <<entVars, cmp>>

unsubscribe_to_chatroom ==
    /\ Len(sent) < MaxSends
    /\ \E id \in Ids :
          /\ sent' = Append(sent, ControlFrame(UnsubscribeEvent, ChatroomTopic(id)))
          /\ calls' = Append(calls, [op |-> "unsubscribe_to_chatroom", id |-> id])
    /\ UNCHANGED readerVars
    /\ UNCHANGED <<entVars, cmp>>

watch_channel ==
    /\ Len(sent) < MaxSends
    /\ \E id \in Ids :
          /\ sent' = Append(sent, ControlFrame(WatchEvent, ChannelTopic(id)))
          /\ calls' = Append(calls, [op |-> "watch_channel", id |-> id])
    /\ UNCHANGED readerVars
    /\ UNCHANGED <<entVars, cmp>>

unwatch_channel ==
    /\ Len(sent) < MaxSends
    /\ \E id \in Ids :
          /\ sent' = Append(sent, ControlFrame(UnwatchEvent, ChannelTopic(id)))
          /\ calls' = Append(calls, [op |-> "unwatch_channel", id |-> id])
    /\ UNCHANGED readerVars
    /\ UNCHANGED <<entVars, cmp>>

SubNext ==
    subscribe_to_chatroom \/ unsubscribe_to_chatroom \/ watch_channel \/ unwatch_channel

SubSpec == Init /\ [][SubNext]_vars

(* ----------------------------- entity payloads ------------------------- *)

\* attribute accesses made on one instance in one run
MaxAccesses == 3

\* JSON null and the empty JSON object
Null == [json_null |-> TRUE]

EmptyMap == [k \in {} |-> TRUE]

\* AuthorPayload / PartialAuthorPayload
AuthorPayloads ==
    { [id |-> i, username |-> n, slug |-> n,
       identity |-> [color |-> "#fff", badges |-> <<>>]] : i \in {9, 10}, n \in {"u", "v"} }

PartialAuthorPayloads ==
    { [id |-> i, username |-> n, slug |-> n] : i \in {9, 10}, n \in {"u", "v"} }

\* ReplyMetaData
ReplyMeta(mid, sid) ==
    [original_sender |-> [id |-> sid, username |-> "w"],
     original_message |-> [id |-> mid, content |-> "yo"]]

\* BaseMessagePayload: a message that is no reply carries no metadata key
PlainMessage(mid, at, sender) ==
    [id |-> mid, chatroom_id |-> 5, content |-> "hi", created_at |-> at,
     sender |-> [id |-> sender, username |-> "u", slug |-> "u",
                 identity |-> [color |-> "#fff", badges |-> <<>>]]]

WithMetadata(p, md) == [k \in DOMAIN p \cup {"metadata"} |-> IF k = "metadata" THEN md ELSE p[k]]

\* MessagePayload: no metadata, null, {}, and two replies
MessagePayloads ==
    { PlainMessage("1", "2024-01-01T00:00:00", 9),
      WithMetadata(PlainMessage("1", "2024-01-01T00:00:00", 9), Null),
      WithMetadata(PlainMessage("1", "2024-01-01T00:00:00", 9), EmptyMap),
      WithMetadata(PlainMessage("1", "2024-01-01T00:00:00", 9), ReplyMeta("m1", "7")),
      WithMetadata(PlainMessage("2", "2024-01-02T00:00:00", 10), ReplyMeta("m2", "8")) }

\* MessagePinPayload as poll_event receives it
PinPayloads ==
    { [message |-> PlainMessage("1", "2024-01-01T00:00:00", 9), duration |-> "20",
       pinnedBy |-> CHOOSE a \in AuthorPayloads : a.id = 9 /\ a.slug = "u"],
      [message |-> PlainMessage("2", "2024-01-02T00:00:00", 10), duration |-> "30",
       pinnedBy |-> CHOOSE a \in AuthorPayloads : a.id = 10 /\ a.slug = "v"] }

\* UserBannedPayload / UserUnbannedPayload: permanent true, false or left out
BanPayloads ==
    { [id |-> "b1", user |-> [id |-> 9, username |-> "u", slug |-> "u"],
       banned_by |-> [id |-> 10, username |-> "v", slug |-> "v"], permanent |-> TRUE],
      [id |-> "b2", user |-> [id |-> 10, username |-> "v", slug |-> "v"],
       banned_by |-> [id |-> 9, username |-> "u", slug |-> "u"], permanent |-> FALSE],
      [id |-> "b3", user |-> [id |-> 9, username |-> "v", slug |-> "v"],
       banned_by |-> [id |-> 9, username |-> "u", slug |-> "u"]] }

UnbanPayloads ==
    { [id |-> "b1", user |-> [id |-> 9, username |-> "u", slug |-> "u"],
       unbanned_by |-> [id |-> 10, username |-> "v", slug |-> "v"], permanent |-> TRUE],
      [id |-> "b3", user |-> [id |-> 10, username |-> "v", slug |-> "v"],
       unbanned_by |-> [id |-> 9, username |-> "u", slug |-> "u"]] }

\* the payloads an instance of each class is built over
PayloadsOf(cls) ==
    CASE cls = "Message" -> MessagePayloads
      [] cls = "PartialMessage" -> { ReplyMeta("m1", "7"), ReplyMeta("m2", "8") }
      [] cls = "PinnedMessage" -> PinPayloads
      [] cls = "UserBannedEventData" -> BanPayloads
      [] cls = "UserUnbannedEventData" -> UnbanPayloads
      [] cls = "Author" -> AuthorPayloads
      [] cls = "PartialAuthor" -> PartialAuthorPayloads

EntityClasses ==
    {"Message", "PartialMessage", "PinnedMessage", "UserBannedEventData", "UserUnbannedEventData"}

\* HTTPDataclass(data=..., http=...)
New(cls, data) == [cls |-> cls, data |-> data]

(* --------------------------- entity accessors -------------------------- *)

\* int(...) of the digit strings the payloads hold
StrToInt == ("7" :> 7 @@ "8" :> 8 @@ "20" :> 20 @@ "30" :> 30)

\* datetime.fromisoformat
FromIsoFormat ==
    ( "2024-01-01T00:00:00" :> [cls |-> "datetime", year |-> 2024, month |-> 1, day |-> 1]
   @@ "2024-01-02T00:00:00" :> [cls |-> "datetime", year |-> 2024, month |-> 1, day |-> 2] )

\* bool(self._data.get(key)) for a key that holds a map or null
TruthyMap(data, key) ==
    /\ key \in DOMAIN data
    /\ data[key] # Null
    /\ DOMAIN data[key] # {}

\* bool(self._data.get(key)) for a key that holds a boolean
TruthyFlag(data, key) == key \in DOMAIN data /\ data[key]

\* Message_is_reply as a test for the key, "metadata" in self._data
Message_is_replyKeyPresent(data) == "metadata" \in DOMAIN data

\* Message.is_reply
Message_is_reply(data) == TruthyMap(data, "metadata")

\* Message.references
Message_references(data) ==
    IF ~TruthyMap(data, "metadata") THEN None
    ELSE New("PartialMessage", data.metadata)

\* PartialMessage.id
PartialMessage_id(data) == data.original_message.id

\* PartialMessage.author
PartialMessage_author(data) ==
    [cls |-> "PartialUser", id |-> StrToInt[data.original_sender.id],
     username |-> data.original_sender.username]

\* client.get_chatroom(chatroom_id): the handle, or None when unknown
get_chatroom(known, id) ==
    IF id \in known THEN [cls |-> "Chatroom", id |-> id] ELSE None

\* Message.chatroom
Message_chatroom(data, known) == get_chatroom(known, data.chatroom_id)

\* the function under each attribute
Derive(cls, field, data, known) ==
    CASE cls = "Message" /\ field = "id" -> data.id
      [] cls = "Message" /\ field = "is_reply" -> Message_is_reply(data)
      [] cls = "Message" /\ field = "references" -> Message_references(data)
      [] cls = "Message" /\ field = "chatroom" -> Message_chatroom(data, known)
      [] cls = "Message" /\ field = "created_at" -> FromIsoFormat[data.created_at]
      [] cls = "Message" /\ field = "author" -> New("Author", data.sender)
      [] cls = "PartialMessage" /\ field = "id" -> PartialMessage_id(data)
      [] cls = "PartialMessage" /\ field = "author" -> PartialMessage_author(data)
      [] cls = "PinnedMessage" /\ field = "message" -> New("Message", data.message)
      [] cls = "PinnedMessage" /\ field = "duration" -> StrToInt[data.duration]
      [] cls = "PinnedMessage" /\ field = "pinned_by" -> New("Author", data.pinnedBy)
      [] cls \in {"UserBannedEventData", "UserUnbannedEventData"} /\ field = "id" -> data.id
      [] cls \in {"UserBannedEventData", "UserUnbannedEventData"} /\ field = "is_permanent" ->
            TruthyFlag(data, "permanent")
      [] cls \in {"UserBannedEventData", "UserUnbannedEventData"} /\ field = "user" ->
            New("PartialAuthor", data.user)
      [] cls = "UserBannedEventData" /\ field = "banned_by" ->
            New("PartialAuthor", data.banned_by)
      [] cls = "UserUnbannedEventData" /\ field = "unbanned_by" ->
            New("PartialAuthor", data.unbanned_by)

\* CachedFields with Message.is_reply declared a plain property
CachedFieldsReplyPlain(cls) ==
    CASE cls = "Message" -> {"references", "created_at", "author"}
      [] cls = "PartialMessage" -> {"author"}
      [] cls = "PinnedMessage" -> {"message", "duration", "pinned_by"}
      [] cls = "UserBannedEventData" -> {"is_permanent", "user", "banned_by"}
      [] cls = "UserUnbannedEventData" -> {"is_permanent", "user", "unbanned_by"}
      [] OTHER -> {}

\* CachedFields with Message.chatroom declared a cached property
CachedFieldsWithChatroom(cls) ==
    CASE cls = "Message" -> {"is_reply", "references", "created_at", "author", "chatroom"}
      [] cls = "PartialMessage" -> {"author"}
      [] cls = "PinnedMessage" -> {"message", "duration", "pinned_by"}
      [] cls = "UserBannedEventData" -> {"is_permanent", "user", "banned_by"}
      [] cls = "UserUnbannedEventData" -> {"is_permanent", "user", "unbanned_by"}
      [] OTHER -> {}

\* the attributes declared with @cached_property
CachedFields(cls) ==
    CASE cls = "Message" -> {"is_reply", "references", "created_at", "author"}
      [] cls = "PartialMessage" -> {"author"}
      [] cls = "PinnedMessage" -> {"message", "duration", "pinned_by"}
      [] cls = "UserBannedEventData" -> {"is_permanent", "user", "banned_by"}
      [] cls = "UserUnbannedEventData" -> {"is_permanent", "user", "unbanned_by"}
      [] OTHER -> {}

\* the attributes of each class that are modelled, cached or not
FieldsOf(cls) ==
    CASE cls = "Message" ->
            {"id", "is_reply", "references", "chatroom", "created_at", "author"}
      [] cls = "PartialMessage" -> {"id", "author"}
      [] cls = "PinnedMessage" -> {"message", "duration", "pinned_by"}
      [] cls = "UserBannedEventData" -> {"id", "is_permanent", "user", "banned_by"}
      [] cls = "UserUnbannedEventData" -> {"id", "is_permanent", "user", "unbanned_by"}
      [] OTHER -> {}

\* cached_property.__get__: the stored value if there is one; otherwise the
\* function is run and its value stored on the instance
cached_property(store, field, value) ==
    IF field \in DOMAIN store
    THEN [value |-> store[field], store |-> store, ran |-> FALSE]
    ELSE [value |-> value, store |-> (field :> value) @@ store, ran |-> TRUE]

\* property.__get__: the function is run on every access
property(store, field, value) == [value |-> value, store |-> store, ran |-> TRUE]

\* obj.<field>
GetAttr(o, store, field, known) ==
    IF field \in CachedFields(o.cls)
    THEN cached_property(store, field, Derive(o.cls, field, o.data, known))
    ELSE property(store, field, Derive(o.cls, field, o.data, known))

(* --------------------------- entity operations ------------------------- *)

\* an entity is constructed over a payload
Construct ==
    /\ obj = NoObject
    /\ \E cls \in EntityClasses : \E d \in PayloadsOf(cls) :
          /\ obj' = New(cls, d)
          /\ runs' = [f \in FieldsOf(cls) |-> 0]
    /\ UNCHANGED <<cache, seen, result, chatrooms, accesses, mutated>>
    /\ UNCHANGED <<readerVars, senderVars, cmp>>

\* an attribute of the instance is read
Access ==
    /\ obj # NoObject
    /\ accesses < MaxAccesses
    /\ \E f \in FieldsOf(obj.cls) :
          LET r == GetAttr(obj, cache, f, chatrooms)
          IN  /\ result' = [field |-> f, value |-> r.value]
              /\ cache' = r.store
              /\ runs' = [runs EXCEPT ![f] = IF r.ran THEN @ + 1 ELSE @]
              /\ seen' = IF f \in DOMAIN seen THEN seen ELSE (f :> r.value) @@ seen
    /\ accesses' = accesses + 1
    /\ UNCHANGED <<obj, chatrooms, mutated>>
    /\ UNCHANGED <<readerVars, senderVars, cmp>>

\* the raw payload under the instance is changed
Mutate ==
    /\ obj # NoObject
    /\ \E d \in PayloadsOf(obj.cls) \ {obj.data} : obj' = [obj EXCEPT !.data = d]
    /\ mutated' = TRUE
    /\ UNCHANGED <<cache, seen, runs, result, chatrooms, accesses>>
    /\ UNCHANGED <<readerVars, senderVars, cmp>>

\* the client learns of chatroom 5, or forgets it
RegistryChange ==
    /\ chatrooms' = IF 5 \in chatrooms THEN chatrooms \ {5} ELSE chatrooms \cup {5}
    /\ UNCHANGED <<obj, cache, seen, runs, result, accesses, mutated>>
    /\ UNCHANGED <<readerVars, senderVars, cmp>>

EntNext == Construct \/ Access \/ Mutate \/ RegistryChange

EntSpec == Init /\ [][EntNext]_vars

(* ------------------------------ equality ------------------------------- *)

\* class B(A): issubclass(B, A)
IsSubclass(sub, cls) == sub = cls \/ (sub = "Author" /\ cls = "PartialAuthor")

IsInstance(o, cls) == IsSubclass(o.cls, cls)

\* the id property of each class
IdOf(o) == IF o.cls = "PartialMessage" THEN PartialMessage_id(o.data) ELSE o.data.id

\* def __eq__(self, other): the same body in every class that defines it
Entity_eq(self, other) == IsInstance(other, self.cls) /\ IdOf(other) = IdOf(self)

\* left == right as Python evaluates it: when the right operand's class is a
\* proper subclass of the left one's, the right operand's __eq__ is tried
\* first, and __eq__ here never returns NotImplemented
PyEq(left, right) ==
    IF left.cls # right.cls /\ IsSubclass(right.cls, left.cls)
    THEN Entity_eq(right, left)
    ELSE Entity_eq(left, right)

\* the instances compared
Comparables ==
    { New(cls, d) : cls \in {"Author"}, d \in AuthorPayloads }
    \cup { New(cls, d) : cls \in {"PartialAuthor"}, d \in PartialAuthorPayloads }
    \cup { New(cls, d) : cls \in {"Message"}, d \in MessagePayloads }
    \cup { New(cls, d) : cls \in {"PartialMessage"}, d \in PayloadsOf("PartialMessage") }

\* left == right
Compare ==
    /\ \E l \in Comparables, r \in Comparables :
          cmp' = [left |-> l, right |-> r, result |-> PyEq(l, r)]
    /\ UNCHANGED <<readerVars, senderVars, entVars>>

EqNext == Compare

EqSpec == Init /\ [][EqNext]_vars

(* ------------------------- reading the history ------------------------- *)

GenericNames == {"payload_receive", "raw_payload_receive"}

\* the frame decodes: both texts are JSON and both envelope keys are there
WellFormedEnvelope(m) ==
    /\ m.wellformed
    /\ {"event", "data"} \subseteq DOMAIN m.value
    /\ m.value.data.wellformed

\* poll_event has finished with the n-th frame
Processed(n) == n \in 1..Len(received) /\ (n < Len(received) \/ pc # "poll")

\* the dispatches made for the n-th frame, in order
NotifsOf(n) == SelectSeq(dispatched, LAMBDA d : d.frame = n)

NamedOf(n) == SelectSeq(NotifsOf(n), LAMBDA d : d.name \notin GenericNames)

EventOf(n) == received[n].value.event

DataOf(n) == received[n].value.data.value

\* the n-th frame made poll_event raise
RaisedAt(n) == pc = "raised" /\ n = Len(received)

(* -------------------------------- C1 ----------------------------------- *)

\* C1: every frame that decodes gets both generic notifications,
\* payload_receive with (event name, inner payload) and raw_payload_receive
\* with the outer frame, and both come before any named notification of
\* that frame.
C1_GenericBeforeNamed ==
    \A n \in 1..Len(received) :
        (Processed(n) /\ WellFormedEnvelope(received[n])) =>
            LET ns == NotifsOf(n)
            IN  /\ Len(ns) >= 2
                /\ {ns[1].name, ns[2].name} = GenericNames
                /\ \A i \in 1..Len(ns) :
                      /\ ns[i].name = "payload_receive" =>
                            ns[i].args = <<EventOf(n), DataOf(n)>>
                      /\ ns[i].name = "raw_payload_receive" =>
                            ns[i].args = <<received[n].value>>
                      /\ i > 2 => ns[i].name \notin GenericNames

\* a frame with a named notification and a frame of an unmatched tag have
\* both been processed
C1_Witness ==
    /\ \E i \in 1..Len(dispatched) : dispatched[i].name = "message"
    /\ \E n \in 1..Len(received) :
          Processed(n) /\ WellFormedEnvelope(received[n]) /\ EventOf(n) = "ChatMessageEvent"

(* -------------------------------- C2 ----------------------------------- *)

\* the table of section 4.4, FollowersUpdated left out
EntityTable ==
    [ ChatMessageEvent          |-> [name |-> "message", cls |-> "Message"],
      MessageDeletedEvent       |-> [name |-> "message_delete", cls |-> "MessageDeletedEventData"],
      PinnedMessageCreatedEvent |-> [name |-> "pin_message", cls |-> "PinnedMessage"],
      PinnedMessageDeletedEvent |-> [name |-> "pinned_message_delete", cls |-> "none"],
      UserBannedEvent           |-> [name |-> "user_banned", cls |-> "UserBannedEventData"],
      UserUnbannedEvent         |-> [name |-> "user_unbanned", cls |-> "UserUnbannedEventData"],
      StreamerIsLive            |-> [name |-> "livestream_start", cls |-> "PartialLivestream"] ]

\* C2: a frame tagged App\Events\<tag>, for the seven tags that construct an
\* entity, gets exactly one named notification: the table's name, carrying
\* one object of the table's type over the frame's inner payload, or no
\* argument at all for pinned_message_delete.
C2_EntityTable ==
    \A n \in 1..Len(received) : \A tag \in DOMAIN EntityTable :
        (/\ Processed(n)
         /\ WellFormedEnvelope(received[n])
         /\ EventOf(n) = "App\\Events\\" \o tag) =>
            LET named == NamedOf(n)
            IN  /\ Len(named) = 1
                /\ named[1].name = EntityTable[tag].name
                /\ IF tag = "PinnedMessageDeletedEvent"
                   THEN named[1].args = <<>>
                   ELSE named[1].args = << [cls |-> EntityTable[tag].cls, data |-> DataOf(n)] >>

\* a pinned_message_delete and a notification carrying an object over the
\* second payload have been dispatched
C2_Witness ==
    /\ \E i \in 1..Len(dispatched) : dispatched[i].name = "pinned_message_delete"
    /\ \E i \in 1..Len(dispatched) :
          /\ dispatched[i].name \in {"message", "message_delete", "pin_message",
                                     "user_banned", "user_unbanned", "livestream_start"}
          /\ dispatched[i].args[1].data = [id |-> "2"]

(* -------------------------------- C3 ----------------------------------- *)

\* the eight tags of section 4.4
SpecTags ==
    { "App\\Events\\" \o t : t \in DOMAIN EntityTable \cup {"FollowersUpdated"} }

\* C3: a frame that decodes and whose tag is none of the eight gets exactly
\* the two generic notifications, and poll_event returns without raising.
C3_UnknownTagGenericOnly ==
    \A n \in 1..Len(received) :
        (/\ Processed(n)
         /\ WellFormedEnvelope(received[n])
         /\ EventOf(n) \notin SpecTags) =>
            /\ Len(NotifsOf(n)) = 2
            /\ {NotifsOf(n)[1].name, NotifsOf(n)[2].name} = GenericNames
            /\ ~RaisedAt(n)

\* a frame of an unmatched tag was processed and the loop went on to
\* process another frame
C3_Witness ==
    /\ Len(received) = 2
    /\ pc = "test"
    /\ WellFormedEnvelope(received[1])
    /\ EventOf(1) = "pusher:connection_established"

(* -------------------------------- C4 ----------------------------------- *)

\* poll_event finishes with the frame it holds
PollStep == pc = "poll" /\ pc' # "poll"

\* the frame held is a FollowersUpdated envelope that decodes and names a channel
FollowFrame ==
    /\ WellFormedEnvelope(raw_msg)
    /\ raw_msg.value.event = "App\\Events\\FollowersUpdated"
    /\ "channel_id" \in DOMAIN raw_msg.value.data.value

C4_Step ==
    (/\ PollStep
     /\ FollowFrame
     /\ raw_msg.value.data.value.channel_id \in DOMAIN followers
     /\ "followed" \in DOMAIN raw_msg.value.data.value
     /\ raw_msg.value.data.value.followed \in {"true", "false"}) =>
        LET c == raw_msg.value.data.value.channel_id
            up == raw_msg.value.data.value.followed = "true"
            want == IF up THEN followers[c] + 1 ELSE followers[c] - 1
        IN  /\ followers'[c] = want
            /\ Len(dispatched') = Len(dispatched) + 3
            /\ dispatched'[Len(dispatched')] =
                  [name |-> IF up THEN "follow" ELSE "unfollow",
                   frame |-> Len(received),
                   args |-> << [cls |-> "User", key |-> c, followers_count |-> want] >>]

\* C4: FollowersUpdated for a watched channel with followed true raises that
\* user's followers_count by exactly 1 and dispatches follow; with followed
\* false it lowers it by exactly 1 and dispatches unfollow; the notification
\* carries that user, already showing the new count.
C4_FollowersUpdated == [][C4_Step]_vars

\* the example of section 8: from 3, follow shows 4 and the unfollow after
\* it shows 3 again
C4_Witness ==
    /\ Len(dispatched) = 6
    /\ dispatched[3].name = "follow"
    /\ dispatched[3].args = << [cls |-> "User", key |-> 5, followers_count |-> 4] >>
    /\ dispatched[6].name = "unfollow"
    /\ dispatched[6].args = << [cls |-> "User", key |-> 5, followers_count |-> 3] >>
    /\ followers[5] = 3

(* -------------------------------- C5 ----------------------------------- *)

\* C5: a frame that fails to decode does not raise out of start(); the loop
\* goes on to the next frame.
C5_DecodeFailureStaysInLoop ==
    \A n \in 1..Len(received) :
        (Processed(n) /\ ~WellFormedEnvelope(received[n])) => ~RaisedAt(n)

(* -------------------------------- C6 ----------------------------------- *)

C6_Step ==
    (/\ PollStep
     /\ FollowFrame
     /\ raw_msg.value.data.value.channel_id \notin DOMAIN followers) =>
        /\ pc' = "raised"
        /\ error' = "KeyError"
        /\ followers' = followers
        /\ \A i \in (Len(dispatched) + 1)..Len(dispatched') :
              dispatched'[i].name \notin {"follow", "unfollow"}

\* C6: FollowersUpdated for a channel that is not watched raises KeyError to
\* the caller of poll_event: no follow or unfollow is dispatched for it and
\* no followers_count changes.
C6_UntrackedRaises == [][C6_Step]_vars

\* the second frame named channel 7, which is not watched, and start() has
\* been left by the KeyError
C6_Witness ==
    /\ Len(received) = 2
    /\ WellFormedEnvelope(received[2])
    /\ EventOf(2) = "App\\Events\\FollowersUpdated"
    /\ "channel_id" \in DOMAIN DataOf(2)
    /\ DataOf(2).channel_id = 7
    /\ pc = "raised"
    /\ error = "KeyError"

(* ----------------------------- C7 and C8 ------------------------------- *)

\* the topic names of section 4.5, written out
ChatroomTopicName == (5 :> "chatrooms.5.v2" @@ 12 :> "chatrooms.12.v2")

ChannelTopicName == (5 :> "channel.5" @@ 12 :> "channel.12")

ExpectedFrame(event, topic) ==
    [event |-> event, data |-> [auth |-> "", channel |-> topic]]

\* C7: unwatch_channel(c) sends pusher:unsubscribe for channel.<c>.
C7_UnwatchSendsUnsubscribe ==
    /\ Len(sent) = Len(calls)
    /\ \A i \in 1..Len(calls) :
          calls[i].op = "unwatch_channel" =>
              sent[i] = ExpectedFrame("pusher:unsubscribe", ChannelTopicName[calls[i].id])

\* C8: each call of subscribe_to_chatroom, unsubscribe_to_chatroom and
\* watch_channel sends exactly one control frame: pusher:subscribe,
\* pusher:unsubscribe and pusher:subscribe, with auth "" and the topic
\* chatrooms.<id>.v2, chatrooms.<id>.v2 and channel.<id>.
C8_ControlFrames ==
    /\ Len(sent) = Len(calls)
    /\ \A i \in 1..Len(calls) :
          /\ calls[i].op = "subscribe_to_chatroom" =>
                sent[i] = ExpectedFrame("pusher:subscribe", ChatroomTopicName[calls[i].id])
          /\ calls[i].op = "unsubscribe_to_chatroom" =>
                sent[i] = ExpectedFrame("pusher:unsubscribe", ChatroomTopicName[calls[i].id])
          /\ calls[i].op = "watch_channel" =>
                sent[i] = ExpectedFrame("pusher:subscribe", ChannelTopicName[calls[i].id])

\* all three operations have been called, one of them with a two-digit id
C8_Witness ==
    /\ Len(calls) = 3
    /\ calls[1] = [op |-> "subscribe_to_chatroom", id |-> 12]
    /\ calls[2] = [op |-> "watch_channel", id |-> 5]
    /\ calls[3] = [op |-> "unsubscribe_to_chatroom", id |-> 12]

(* -------------------------------- C9 ----------------------------------- *)

\* notifications are logged in the order of the frames they belong to
InWireOrder ==
    /\ \A i \in 1..Len(dispatched) : dispatched[i].frame \in 1..Len(received)
    /\ \A i, j \in 1..Len(dispatched) :
          i < j => dispatched[i].frame <= dispatched[j].frame

C9_Step ==
    /\ received' # received =>
          /\ Len(received) > 0 => Processed(Len(received))
          /\ dispatched' = dispatched
    /\ dispatched' # dispatched =>
          /\ received' = received
          /\ Len(dispatched') > Len(dispatched)
          /\ SubSeq(dispatched', 1, Len(dispatched)) = dispatched
          /\ \A i \in (Len(dispatched) + 1)..Len(dispatched') :
                dispatched'[i].frame = Len(received)

\* C9: frames are processed one at a time: a frame is received only after
\* poll_event has finished with the one before it, and every notification
\* dispatched belongs to the frame received last, so the notifications
\* follow wire order without interleaving.
C9_OneFrameAtATime == []InWireOrder /\ [][C9_Step]_vars

\* two frames were received and each has had its notifications
C9_Witness ==
    /\ Len(received) = 2
    /\ pc = "test"
    /\ Len(NotifsOf(1)) = 3
    /\ Len(NotifsOf(2)) = 3

(* -------------------------------- C10 ---------------------------------- *)

C10_Step ==
    /\ received' # received => pc = "receive"
    /\ (pc # "receive" /\ pc' = "receive") => (pc = "test" /\ ~closed)
    /\ (pc = "test" /\ closed /\ pc' # pc) => (pc' = "done" /\ received' = received)
    /\ pc = "done" => (pc' = "done" /\ received' = received)

\* C10: receive is called only after closed was read false at the top of
\* the iteration; when closed is true at the top of the loop, start()
\* returns without receiving another frame, and it does return.
C10_StopsWhenClosed ==
    /\ [][C10_Step]_vars
    /\ (pc = "test" /\ closed) ~> (pc = "done")

\* the transport closed while a frame was being handled and start() returned
\* after that frame
C10_Witness ==
    /\ pc = "done"
    /\ closed
    /\ Len(received) = 1
    /\ Len(dispatched) >= 2

(* -------------------------------- C14 ---------------------------------- *)

\* the counts the watched users start with
FollowersAtStart == (5 :> 3 @@ 6 :> 0)

\* how many notifications of that name were dispatched with watched user c
CountOf(name, c) ==
    Cardinality({ i \in 1..Len(dispatched) :
                    dispatched[i].name = name /\ dispatched[i].args[1].key = c })

\* C14: no follower update is lost: each watched user's followers_count is
\* its initial value plus the follow notifications dispatched for that user
\* minus the unfollow ones, with no clamping at zero.
C14_NoLostUpdate ==
    \A c \in DOMAIN followers :
        followers[c] = FollowersAtStart[c] + CountOf("follow", c) - CountOf("unfollow", c)

\* one user's count went below zero while the other was followed
C14_Witness ==
    /\ followers[6] = -1
    /\ CountOf("unfollow", 6) = 1
    /\ followers[5] = 4
    /\ CountOf("follow", 5) = 1

(* -------------------------------- C16 ---------------------------------- *)

C16_Step ==
    PollStep =>
        /\ DOMAIN followers' = DOMAIN followers
        /\ IF FollowFrame
           THEN \A c \in DOMAIN followers \ {raw_msg.value.data.value.channel_id} :
                    followers'[c] = followers[c]
           ELSE followers' = followers

\* C16: processing a frame changes resolver-held state only for
\* FollowersUpdated: any other frame leaves every followers_count and the
\* set of watched users as they were, and FollowersUpdated changes only the
\* count of the user its channel_id names.
C16_OnlyFollowersUpdatedMutates == [][C16_Step]_vars

\* an entity frame left both counts alone and a FollowersUpdated frame then
\* changed one of them
C16_Witness ==
    /\ Len(received) = 2
    /\ pc = "test"
    /\ WellFormedEnvelope(received[1])
    /\ EventOf(1) = "App\\Events\\StreamerIsLive"
    /\ WellFormedEnvelope(received[2])
    /\ EventOf(2) = "App\\Events\\FollowersUpdated"
    /\ followers[5] = 4
    /\ followers[6] = 0

(* -------------------------------- C17 ---------------------------------- *)

\* the outer frame is not JSON, it has no data field, or the data string is
\* not JSON
DecodeFails(m) ==
    \/ ~m.wellformed
    \/ "data" \notin DOMAIN m.value
    \/ ~m.value.data.wellformed

C17_Step ==
    (PollStep /\ DecodeFails(raw_msg)) =>
        /\ dispatched' = dispatched
        /\ followers' = followers

C17_NothingLogged ==
    \A n \in 1..Len(received) :
        (Processed(n) /\ DecodeFails(received[n])) => NotifsOf(n) = <<>>

\* C17: when decoding a frame fails, no notification at all is dispatched
\* for that frame and no followers_count changes.
C17_FailedDecodeDispatchesNothing == []C17_NothingLogged /\ [][C17_Step]_vars

\* the second frame's data string was not JSON: poll_event raised and the
\* log holds the first frame's notifications only
C17_Witness ==
    /\ Len(received) = 2
    /\ pc = "raised"
    /\ error = "JSONDecodeError"
    /\ received[2].wellformed
    /\ "data" \in DOMAIN received[2].value
    /\ ~received[2].value.data.wellformed
    /\ Len(dispatched) = 3

(* -------------------------------- C18 ---------------------------------- *)

C18_Step ==
    (/\ PollStep
     /\ FollowFrame
     /\ raw_msg.value.data.value.channel_id \in DOMAIN followers
     /\ "followed" \in DOMAIN raw_msg.value.data.value
     /\ raw_msg.value.data.value.followed # "true") =>
        LET c == raw_msg.value.data.value.channel_id
        IN  /\ followers'[c] = followers[c] - 1
            /\ Len(dispatched') = Len(dispatched) + 3
            /\ dispatched'[Len(dispatched')].name = "unfollow"
            /\ dispatched'[Len(dispatched')].args[1].key = c

\* C18: the follow branch is taken only when followed is the boolean true:
\* for a watched user every other value (false, null, a number, a string)
\* lowers followers_count by 1 and dispatches unfollow.
C18_OnlyTrueFollows == [][C18_Step]_vars

\* the number 1 and the string "true" were each taken as an unfollow
C18_Witness ==
    /\ Len(received) = 2
    /\ pc = "test"
    /\ DataOf(1) = [channel_id |-> 5, followed |-> "1"]
    /\ DataOf(2) = [channel_id |-> 5, followed |-> "\"true\""]
    /\ followers[5] = 1
    /\ CountOf("unfollow", 5) = 2

(* -------------------------------- C11 ---------------------------------- *)

\* the cached derived fields the data model names, by class
NamedCachedFields ==
    [ Message               |-> {"is_reply", "references", "created_at", "author"},
      PartialMessage        |-> {"author"},
      PinnedMessage         |-> {"message", "duration", "pinned_by"},
      UserBannedEventData   |-> {"user", "banned_by", "is_permanent"},
      UserUnbannedEventData |-> {"user", "unbanned_by", "is_permanent"} ]

\* C11: every cached derived field of an instance is computed at most once:
\* once an access has returned, every later access of that field returns
\* that same value and does not run the derivation again, also when the raw
\* payload was changed in between.
C11_ComputedOnce ==
    obj.cls \in DOMAIN NamedCachedFields =>
        \A f \in NamedCachedFields[obj.cls] :
            /\ runs[f] <= 1
            /\ (result.field = f /\ f \in DOMAIN seen) => result.value = seen[f]

\* is_reply was read, the payload was changed to one that would give the
\* other answer, and is_reply was read again
C11_Witness ==
    /\ obj.cls = "Message"
    /\ mutated
    /\ accesses = 2
    /\ result.field = "is_reply"
    /\ runs["is_reply"] = 1
    /\ result.value # Message_is_reply(obj.data)

(* -------------------------------- C12 ---------------------------------- *)

\* the payload's metadata field is present and is a non-empty map
HasReplyMetadata(data) ==
    /\ "metadata" \in DOMAIN data
    /\ data.metadata \notin {Null, EmptyMap}

\* C12: on a Message over payload P, is_reply is true iff P's metadata is
\* present and a non-empty map; references is None iff is_reply is false and
\* is otherwise a PartialMessage whose id is P.metadata.original_message.id.
C12_ReplyFields ==
    (obj.cls = "Message" /\ ~mutated) =>
        /\ "is_reply" \in DOMAIN seen => (seen["is_reply"] <=> HasReplyMetadata(obj.data))
        /\ "references" \in DOMAIN seen =>
              IF HasReplyMetadata(obj.data)
              THEN /\ seen["references"].cls = "PartialMessage"
                   /\ IdOf(seen["references"]) = obj.data.metadata.original_message.id
              ELSE seen["references"] = None

\* both fields were read on a reply to message m2
C12_Witness ==
    /\ obj.cls = "Message"
    /\ ~mutated
    /\ {"is_reply", "references"} \subseteq DOMAIN seen
    /\ HasReplyMetadata(obj.data)
    /\ seen["is_reply"]
    /\ IdOf(seen["references"]) = "m2"

(* -------------------------------- C13 ---------------------------------- *)

AuthorClasses == {"Author", "PartialAuthor"}

\* C13: author equality depends only on id: two Authors with the same id
\* and different slugs are equal, and an Author and a PartialAuthor with the
\* same id are equal whichever is the left operand.
C13_AuthorsEqualById ==
    (/\ cmp.left.cls \in AuthorClasses
     /\ cmp.right.cls \in AuthorClasses
     /\ cmp.left.data.id = cmp.right.data.id) => cmp.result

(* -------------------------------- C15 ---------------------------------- *)

\* C15 as stated: chatroom is cached: once read on an instance, later reads
\* return the same value even if the client's registry changed in between.
C15_ChatroomCached ==
    (obj.cls = "Message" /\ result.field = "chatroom" /\ "chatroom" \in DOMAIN seen) =>
        result.value = seen["chatroom"]

C15_Step ==
    (/\ obj.cls = "Message"
     /\ accesses' = accesses + 1
     /\ result'.field = "chatroom") =>
        result'.value =
            IF obj.data.chatroom_id \in chatrooms
            THEN [cls |-> "Chatroom", id |-> obj.data.chatroom_id]
            ELSE None

\* C15 amended: every read of Message.chatroom asks the resolver by
\* chatroom_id and returns the handle if the client knows the chatroom at
\* that moment and None if it does not; nothing is stored on the instance.
C15_ChatroomLive == [][C15_Step]_vars

\* chatroom read None, the client then learnt of the chatroom, and the next
\* read returned the handle
C15_Witness ==
    /\ obj.cls = "Message"
    /\ "chatroom" \in DOMAIN seen
    /\ seen["chatroom"] = None
    /\ result.field = "chatroom"
    /\ result.value = [cls |-> "Chatroom", id |-> 5]
    /\ runs["chatroom"] = 2

====
